---- MODULE Spec2Model ----
(***************************************************************************)
(* Verification model of the text-explanation demo:                        *)
(*   src/app.py                    AdvancedTextProcessor,                  *)
(*                                 TextToSpeechAdvanced, main              *)
(*   src/advanced_text_analyzer.py AdvancedTextAnalyzer                    *)
(*                                                                         *)
(* A text is a sequence of characters; a character is a one-letter string  *)
(* for ASCII and the string "U+xxxx" for an Urdu code point.               *)
(***************************************************************************)
EXTENDS Integers, Sequences, FiniteSets, TLC

\* ------------------------------------------------------------------ bounds
MaxFrags == 3
MaxInputLen == 3
MaxTextLen == 4

\* ------------------------------------------------------- string primitives
Min(a, b) == IF a < b THEN a ELSE b

\* str.strip() / str.split() whitespace
Whitespace == {" "}

\* str.lower() on one character
Lower(c) ==
  CASE c = "T" -> "t"
    [] c = "H" -> "h"
    [] c = "E" -> "e"
    [] c = "I" -> "i"
    [] c = "S" -> "s"
    [] OTHER -> c

LowerText(s) == [i \in 1..Len(s) |-> Lower(s[i])]

\* s.startswith(p)
StartsWith(s, p) == Len(s) >= Len(p) /\ SubSeq(s, 1, Len(p)) = p

\* p in s
Contains(s, p) == \E i \in 1..(Len(s) - Len(p) + 1) : SubSeq(s, i, i + Len(p) - 1) = p

\* str.replace(old, new) with count=1: only the first occurrence
RECURSIVE ReplaceFirst(_, _, _)
ReplaceFirst(s, old, new) ==
  IF Len(s) < Len(old) THEN s
  ELSE IF StartsWith(s, old)
       THEN new \o SubSeq(s, Len(old) + 1, Len(s))
       ELSE <<Head(s)>> \o ReplaceFirst(Tail(s), old, new)

\* str.replace(old, new): every non-overlapping occurrence, left to right
RECURSIVE Replace(_, _, _)
Replace(s, old, new) ==
  IF Len(s) < Len(old) THEN s
  ELSE IF StartsWith(s, old)
       THEN new \o Replace(SubSeq(s, Len(old) + 1, Len(s)), old, new)
       ELSE <<Head(s)>> \o Replace(Tail(s), old, new)

\* str.split(): maximal runs of non-whitespace characters
RECURSIVE SplitAcc(_, _, _)
SplitAcc(s, cur, acc) ==
  IF s = <<>> THEN (IF cur = <<>> THEN acc ELSE Append(acc, cur))
  ELSE IF Head(s) \in Whitespace
       THEN SplitAcc(Tail(s), <<>>, IF cur = <<>> THEN acc ELSE Append(acc, cur))
       ELSE SplitAcc(Tail(s), Append(cur, Head(s)), acc)

Split(s) == SplitAcc(s, <<>>, <<>>)

\* str.strip()
RECURSIVE LStrip(_)
LStrip(s) == IF s # <<>> /\ Head(s) \in Whitespace THEN LStrip(Tail(s)) ELSE s

RECURSIVE RStrip(_)
RStrip(s) ==
  IF s # <<>> /\ s[Len(s)] \in Whitespace THEN RStrip(SubSeq(s, 1, Len(s) - 1)) ELSE s

Strip(s) == RStrip(LStrip(s))

\* ------------------------------------------------------- translate_to_urdu
translation_patterns ==
  << << <<"t", "h", "e">>, <<"U+0627", "U+0633">> >>,
     << <<"i", "s">>,      <<"U+06C1", "U+06D2">> >>,
     << <<"a", "r", "e">>, <<"U+06C1", "U+06CC", "U+06BA">> >>,
     << <<"a", "n", "d">>, <<"U+0627", "U+0648", "U+0631">> >>,
     << <<"i", "n">>,      <<"U+0645", "U+06CC", "U+06BA">> >>,
     << <<"o", "f">>,      <<"U+06A9", "U+0627">> >>,
     << <<"t", "o">>,      <<"U+06A9", "U+0648">> >> >>

\* for eng, urdu in translation_patterns: text = text.replace(eng, urdu)
RECURSIVE ApplyPatterns(_, _)
ApplyPatterns(text, k) ==
  IF k > Len(translation_patterns) THEN text
  ELSE ApplyPatterns(Replace(text, translation_patterns[k][1], translation_patterns[k][2]), k + 1)

translate_to_urdu(text) == ApplyPatterns(text, 1)

\* the fixed mapping the patterns stand for: English key -> Urdu value
MappingKeys == {translation_patterns[k][1] : k \in 1..Len(translation_patterns)}

MappedValue(key) ==
  translation_patterns[CHOOSE k \in 1..Len(translation_patterns) : translation_patterns[k][1] = key][2]


\* ------------------------------------------------------------------ state
VARIABLES
  pc,                        \* position of main() in the request
  input_text,                \* st.text_area value
  language_option,           \* st.sidebar.selectbox value
  generation_model,          \* AdvancedTextProcessor.generation_model
  text_generator,            \* AdvancedTextProcessor.text_generator
  ui,                        \* what the page has rendered, in order
  calls,                     \* external service invocations, in order
  comprehensive_explanation, \* main()'s local, once assigned
  fallback,                  \* analysis/interpretation used by the template path
  exc,                       \* source of the exception caught by main(), or "none"
  urdu_text,                 \* main()'s local, once assigned
  tpc, tin, tout, tout2,     \* translate_to_urdu applied to a text, then to its result
  apc, atext, aresult, ainsights, aexc, acalls, anotices
                             \* AdvancedTextAnalyzer: position, input, results,
                             \* escaped exception, service calls, printed notices

appVars == <<pc, input_text, language_option, generation_model, text_generator,
             ui, calls, comprehensive_explanation, fallback, exc, urdu_text>>
trVars == <<tpc, tin, tout, tout2>>
anVars == <<apc, atext, aresult, ainsights, aexc, acalls, anotices>>
vars == <<appVars, trVars, anVars>>

\* --------------------------------------------------------- texts as inputs
RECURSIVE Concat(_)
Concat(ss) == IF ss = <<>> THEN <<>> ELSE Head(ss) \o Concat(Tail(ss))

SeqsUpTo(S, n) == UNION {[1..k -> S] : k \in 0..n}

\* pieces the translator's inputs are assembled from: the seven patterns,
\* letters that extend or break them, upper case, whitespace, punctuation
Fragments ==
  MappingKeys \cup {<<"t">>, <<"h">>, <<"e">>, <<"n">>, <<"s">>, <<"T">>, <<"I">>, <<" ">>, <<".">>}

TranslatorInputs == {Concat(fs) : fs \in SeqsUpTo(Fragments, MaxFrags)}

\* what the user can type into the form of main()
AppInputs == SeqsUpTo({" ", "i", "s"}, MaxInputLen)

\* ------------------------------------------------------------ translator run
TrInit ==
  /\ tpc = "start"
  /\ tin \in TranslatorInputs
  /\ tout = <<>>
  /\ tout2 = <<>>

Translate ==
  /\ tpc = "start"
  /\ tout' = translate_to_urdu(tin)
  /\ tpc' = "translated"
  /\ UNCHANGED <<tin, tout2>>

TranslateAgain ==
  /\ tpc = "translated"
  /\ tout2' = translate_to_urdu(tout)
  /\ tpc' = "again"
  /\ UNCHANGED <<tin, tout>>


\* ------------------------------------------------------------- src/app.py
\* Literal text of the program (prompts, template headings, fixed messages)
\* is carried in a text as one opaque character per literal.
PromptLiteral == "Provide a comprehensive, academic-style explanation ...:"
TemplateLiteral == "Paragraph Comprehensive Analysis: ..."
GeneratorPromptLiteral == "Explain the deeper meaning of: "
NoGeneratorLiteral == "Interpretative explanation could not be generated due to model limitations."
GeneratorFailedLiteral == "An interpretative explanation could not be generated."

\* texts an external generator can answer with
Responses == {<<>>, <<"i", "s">>, <<"o", "k", " ", "i", "n">>}

Notice(kind, about) == [kind |-> kind, about |-> about]
Call(svc, arg, outcome) == [svc |-> svc, arg |-> arg, outcome |-> outcome]

NoFallback == [used |-> FALSE, total_words |-> 0, interp |-> <<>>]

\* if input_text.strip(), with the strip forgotten
IsBlankNoStrip(text) == text = <<>>

\* not input_text.strip()
IsBlank(text) == Strip(text) = <<>>

\* except Exception as e: st.warning(...), swallowed without the warning
GenaiFailureSilent(u) == u

\* except Exception as e: st.warning("AI-powered explanation failed. ...")
GenaiFailure(u) == Append(u, Notice("warning", "generate_content"))

\* except Exception as e: return None, without st.error
SpeechFailureSilent(u) == u

\* except Exception as e: st.error(f"Speech generation error: {e}")
SpeechFailure(u) == Append(u, Notice("error", "gTTS"))

\* the English request issued a second time
UrduSpeechRequestCopied(explanation, urdu) == [text |-> explanation, lang |-> "en"]

\* tts_processor.generate_speech(urdu_text, 'ur')
UrduSpeechRequest(explanation, urdu) == [text |-> urdu, lang |-> "ur"]

\* except Exception as e in main(): two st.error calls, the request ends
MainExcept(u, src) == u \o <<Notice("error", src), Notice("error", "traceback")>>

\* decimal rendering of a natural number in an f-string
DigitChars == <<"0", "1", "2", "3", "4", "5", "6", "7", "8", "9">>

RECURSIVE Digits(_)
Digits(n) == IF n < 10 THEN <<DigitChars[n + 1]>> ELSE Digits(n \div 10) \o <<DigitChars[(n % 10) + 1]>>

\* analyze_paragraph: the figures the template interpolates (tokens of the doc)
TotalWords(text) == Len(Split(text))

\* the f-string explanation_template
ExplanationTemplate(total_words, interp) ==
  <<TemplateLiteral>> \o Digits(total_words) \o interp

AppInit ==
  /\ pc = "idle"
  /\ input_text \in AppInputs
  /\ language_option \in {"English", "Urdu"}
  /\ generation_model = "None"
  /\ text_generator = "None"
  /\ ui = <<>>
  /\ calls = <<>>
  /\ comprehensive_explanation = <<>>
  /\ fallback = NoFallback
  /\ exc = "none"
  /\ urdu_text = <<>>

\* if st.button(...): if input_text.strip(): ... else: st.warning(...)
ButtonClick ==
  /\ pc = "idle"
  /\ IF IsBlank(input_text)
     THEN /\ ui' = Append(ui, Notice("warning", "blank_input"))
          /\ pc' = "done"
     ELSE /\ ui' = ui
          /\ pc' = "construct_processor"
  /\ UNCHANGED <<input_text, language_option, generation_model, text_generator,
                 calls, comprehensive_explanation, fallback, exc, urdu_text>>

\* text_processor = AdvancedTextProcessor()
ConstructProcessor ==
  /\ pc = "construct_processor"
  /\ \E spacyOk \in BOOLEAN, key \in {"present", "absent", "raise"}, pipeOk \in BOOLEAN :
       LET c1 == Append(calls, Call("spacy.load", <<>>, IF spacyOk THEN "ok" ELSE "raise"))
           c2 == IF key = "absent" THEN c1
                 ELSE Append(c1, Call("genai.setup", <<>>, IF key = "present" THEN "ok" ELSE "raise"))
           u2 == IF key = "present" THEN ui
                 ELSE IF key = "absent" THEN Append(ui, Notice("warning", "api_key"))
                 ELSE Append(ui, Notice("warning", "genai.setup"))
           c3 == Append(c2, Call("pipeline", <<>>, IF pipeOk THEN "ok" ELSE "raise"))
           u3 == IF pipeOk THEN u2 ELSE Append(u2, Notice("warning", "pipeline"))
       IN IF ~spacyOk
          THEN /\ calls' = c1
               /\ ui' = MainExcept(ui, "spacy.load")
               /\ exc' = "spacy.load"
               /\ pc' = "done"
               /\ UNCHANGED <<generation_model, text_generator>>
          ELSE /\ calls' = c3
               /\ ui' = u3
               /\ generation_model' = IF key = "present" THEN "gemini-pro" ELSE "None"
               /\ text_generator' = IF pipeOk THEN "gpt2" ELSE "None"
               /\ pc' = "construct_tts"
               /\ exc' = exc
  /\ UNCHANGED <<input_text, language_option, comprehensive_explanation, fallback, urdu_text>>

\* tts_processor = TextToSpeechAdvanced()
ConstructTTS ==
  /\ pc = "construct_tts"
  /\ \E ok \in BOOLEAN :
       /\ calls' = Append(calls, Call("os.makedirs", <<>>, IF ok THEN "ok" ELSE "raise"))
       /\ IF ok
          THEN /\ pc' = "explain"
               /\ UNCHANGED <<ui, exc>>
          ELSE /\ ui' = MainExcept(ui, "os.makedirs")
               /\ exc' = "os.makedirs"
               /\ pc' = "done"
  /\ UNCHANGED <<input_text, language_option, generation_model, text_generator,
                 comprehensive_explanation, fallback, urdu_text>>

GenaiOutcomes == {[ok |-> FALSE, text |-> <<>>]} \cup {[ok |-> TRUE, text |-> r] : r \in Responses}

\* response = self.generation_model.generate_content(prompt); response.text
GenaiCalls(prompt, ok) ==
  <<Call("generate_content", prompt, IF ok THEN "ok" ELSE "raise")>>

\* comprehensive_explanation = text_processor.generate_comprehensive_explanation(input_text)
GenerateExplanation ==
  /\ pc = "explain"
  /\ \E g \in GenaiOutcomes, nlpOk \in BOOLEAN, t \in GenaiOutcomes :
       LET useModel == generation_model # "None"
           prompt == <<PromptLiteral>> \o input_text
           c1 == IF useModel THEN calls \o GenaiCalls(prompt, g.ok) ELSE calls
           u1 == IF useModel /\ ~g.ok THEN GenaiFailure(ui) ELSE ui
           c2 == Append(c1, Call("nlp", input_text, IF nlpOk THEN "ok" ELSE "raise"))
           genPrompt == <<GeneratorPromptLiteral>> \o input_text
           c3 == IF text_generator = "None" THEN c2
                 ELSE Append(c2, Call("text_generator", genPrompt, IF t.ok THEN "ok" ELSE "raise"))
           interp == IF text_generator = "None" THEN <<NoGeneratorLiteral>>
                     ELSE IF t.ok THEN genPrompt \o t.text
                     ELSE <<GeneratorFailedLiteral>>
       IN IF useModel /\ g.ok
          THEN /\ calls' = c1
               /\ ui' = ui
               /\ comprehensive_explanation' = g.text
               /\ pc' = "tab1"
               /\ UNCHANGED <<fallback, exc>>
          ELSE IF ~nlpOk
          THEN /\ calls' = c2
               /\ ui' = MainExcept(u1, "nlp")
               /\ exc' = "nlp"
               /\ pc' = "done"
               /\ UNCHANGED <<comprehensive_explanation, fallback>>
          ELSE /\ calls' = c3
               /\ ui' = u1
               /\ fallback' = [used |-> TRUE, total_words |-> TotalWords(input_text), interp |-> interp]
               /\ comprehensive_explanation' = ExplanationTemplate(TotalWords(input_text), interp)
               /\ pc' = "tab1"
               /\ exc' = exc
  /\ UNCHANGED <<input_text, language_option, generation_model, text_generator, urdu_text>>

\* with tab1: analysis_result = text_processor.analyze_paragraph(input_text); st.json(...)
Tab1 ==
  /\ pc = "tab1"
  /\ \E nlpOk \in BOOLEAN :
       /\ calls' = Append(calls, Call("nlp", input_text, IF nlpOk THEN "ok" ELSE "raise"))
       /\ IF nlpOk
          THEN /\ ui' = Append(ui, Notice("json", "analysis_result"))
               /\ pc' = "tab2"
               /\ exc' = exc
          ELSE /\ ui' = MainExcept(ui, "nlp")
               /\ exc' = "nlp"
               /\ pc' = "done"
  /\ UNCHANGED <<input_text, language_option, generation_model, text_generator,
                 comprehensive_explanation, fallback, urdu_text>>

\* with tab2: st.write(comprehensive_explanation)
Tab2 ==
  /\ pc = "tab2"
  /\ ui' = Append(ui, Notice("write", "comprehensive_explanation"))
  /\ pc' = "tab3_en"
  /\ UNCHANGED <<input_text, language_option, generation_model, text_generator,
                 calls, comprehensive_explanation, fallback, exc, urdu_text>>

\* english_audio = tts_processor.generate_speech(comprehensive_explanation, 'en')
Tab3English ==
  /\ pc = "tab3_en"
  /\ \E ok \in BOOLEAN :
       /\ calls' = Append(calls, Call("gTTS", [text |-> comprehensive_explanation, lang |-> "en"],
                                      IF ok THEN "ok" ELSE "raise"))
       /\ ui' = IF ok THEN Append(ui, Notice("audio", "en")) ELSE SpeechFailure(ui)
  /\ pc' = IF language_option = "Urdu" THEN "tab3_ur" ELSE "done"
  /\ UNCHANGED <<input_text, language_option, generation_model, text_generator,
                 comprehensive_explanation, fallback, exc, urdu_text>>

\* if language_option == "Urdu": translate_to_urdu, generate_speech(urdu_text, 'ur')
Tab3Urdu ==
  /\ pc = "tab3_ur"
  /\ urdu_text' = translate_to_urdu(comprehensive_explanation)
  /\ \E ok \in BOOLEAN :
       /\ calls' = Append(calls, Call("gTTS", UrduSpeechRequest(comprehensive_explanation, urdu_text'),
                                      IF ok THEN "ok" ELSE "raise"))
       /\ ui' = IF ok THEN Append(ui, Notice("audio", "ur")) ELSE SpeechFailure(ui)
  /\ pc' = "done"
  /\ UNCHANGED <<input_text, language_option, generation_model, text_generator,
                 comprehensive_explanation, fallback, exc>>


\* --------------------------------------------- src/advanced_text_analyzer.py
\* what the analyzer is given
AnalyzerInputs == SeqsUpTo({"a", ".", " "}, MaxTextLen)

\* text[:200]
SummaryFallbackChars == 200

\* nltk sent_tokenize: a sentence ends at a "." followed by whitespace or the
\* end of the text; whitespace between sentences belongs to neither; a text
\* of whitespace only has no sentence
RECURSIVE SentAcc(_, _, _)
SentAcc(s, cur, acc) ==
  IF s = <<>> THEN (IF Strip(cur) = <<>> THEN acc ELSE Append(acc, RStrip(cur)))
  ELSE IF Head(s) = "." /\ (Tail(s) = <<>> \/ Head(Tail(s)) \in Whitespace)
       THEN SentAcc(LStrip(Tail(s)), <<>>, Append(acc, Append(cur, ".")))
       ELSE SentAcc(Tail(s), Append(cur, Head(s)), acc)

sent_tokenize(text) == SentAcc(text, <<>>, <<>>)

\* nltk word_tokenize: whitespace-delimited tokens, a final "." of a token
\* split off as a token of its own
RECURSIVE WordAcc(_, _)
WordAcc(toks, acc) ==
  IF toks = <<>> THEN acc
  ELSE LET w == Head(toks)
       IN IF Len(w) > 1 /\ w[Len(w)] = "."
          THEN WordAcc(Tail(toks), acc \o <<SubSeq(w, 1, Len(w) - 1), <<".">> >>)
          ELSE WordAcc(Tail(toks), Append(acc, w))

word_tokenize(text) == WordAcc(Split(text), <<>>)

\* str.isalnum()
IsAlnum(w) == w # <<>> /\ \A i \in 1..Len(w) : w[i] \notin {".", " "}

RECURSIVE SumLen(_)
SumLen(ss) == IF ss = <<>> THEN 0 ELSE Len(word_tokenize(Head(ss))) + SumLen(Tail(ss))

\* items[:n]
Take(items, n) == SubSeq(items, 1, Min(n, Len(items)))

\* doc.ents grouped by label in order of first appearance (extract_key_entities)
EntityOutcomes(text) ==
  IF Strip(text) = <<>> THEN {<<>>}
  ELSE {<<>>,
        <<[label |-> "ORG", texts |-> <<"Acme">>]>>,
        <<[label |-> "PERSON", texts |-> <<"Ann", "Bob">>], [label |-> "GPE", texts |-> <<"Oslo">>]>>}

Labels(entities) == [i \in 1..Len(entities) |-> entities[i].label]

RECURSIVE CountEntities(_)
CountEntities(entities) ==
  IF entities = <<>> THEN 0 ELSE Len(Head(entities).texts) + CountEntities(Tail(entities))

\* entities.get(label, [])
EntitiesGet(entities, label) ==
  IF \E i \in 1..Len(entities) : entities[i].label = label
  THEN entities[CHOOSE i \in 1..Len(entities) : entities[i].label = label].texts
  ELSE <<>>

\* TextBlob sentiment, in tenths
SentimentOutcomes ==
  {[polarity |-> -8, subjectivity |-> 5], [polarity |-> 0, subjectivity |-> 0],
   [polarity |-> 3, subjectivity |-> 10]}

Abs(x) == IF x < 0 THEN 0 - x ELSE x

\* list(set(noun_chunks))[:10]: the distinct chunks in any order
KeyPhraseOutcomes(text) ==
  IF Strip(text) = <<>> THEN {<<>>}
  ELSE {<<>>, <<"np1">>, <<"np1", "np2">>, <<"np2", "np1">>}

\* the summarizer either answers or raises
SummarizerOutcomes == {[ok |-> FALSE, text |-> <<>>], [ok |-> TRUE, text |-> <<"a", ".">>]}

ACall(svc, outcome, caught) == [svc |-> svc, outcome |-> outcome, caught |-> caught]

NoExplanation ==
  [total_words |-> 0, avg_num |-> 0, avg_den |-> 1,
   entity_count |-> 0, entity_categories |-> <<>>,
   polarity |-> 0, tone |-> "neutral", subjectivity |-> 0,
   key_phrases |-> <<>>, summary |-> <<>>]

NoResult ==
  [returned |-> FALSE, full_explanation |-> NoExplanation, entities |-> <<>>,
   sentiment |-> [polarity |-> 0, subjectivity |-> 0], key_phrases |-> <<>>,
   total_words |-> 0, unique_words |-> 0, avg_num |-> 0, avg_den |-> 1,
   summary |-> <<>>]

NoInsights ==
  [returned |-> FALSE, template |-> 0, complexity_description |-> "",
   has_entities |-> FALSE, entities |-> <<>>, sentiment_tone |-> "", key_phrases |-> <<>>]

\* summary = sentences[0] if sentences else text[:200], always the truncation
SummaryFallbackTruncate(text, sentences) == Take(text, SummaryFallbackChars)

\* except Exception: summary = sentences[0] if sentences else text[:200]
SummaryFallback(text, sentences) ==
  IF sentences # <<>> THEN sentences[1] ELSE Take(text, SummaryFallbackChars)

\* the five explanation_components, '\n\n'-joined in this order
ExplanationComponents(la, entities, sentiment, key_phrases, summary) ==
  [total_words |-> la.total_words, avg_num |-> la.avg_num, avg_den |-> la.avg_den,
   entity_count |-> CountEntities(entities), entity_categories |-> Labels(entities),
   polarity |-> sentiment.polarity,
   tone |-> IF sentiment.polarity > 0 THEN "positive"
            ELSE IF sentiment.polarity < 0 THEN "negative" ELSE "neutral",
   subjectivity |-> sentiment.subjectivity,
   key_phrases |-> key_phrases, summary |-> summary]

\* AdvancedTextAnalyzer.generate_comprehensive_explanation(text), given what
\* the services answer: the calls it makes, the exception that escapes it
\* ("none" when it returns) and the mapping it returns
Explain(text, nlp, entities, sentiment, key_phrases, summ) ==
  LET sentences == sent_tokenize(text)
      c1 == <<ACall("nlp", IF nlp = "raise1" THEN "raise" ELSE "ok", FALSE)>>
      c2 == Append(c1, ACall("nlp", IF nlp = "raise2" THEN "raise" ELSE "ok", FALSE))
      c3 == Append(c2, ACall("summarizer", IF summ.ok THEN "ok" ELSE "raise", ~summ.ok))
      summary == IF summ.ok THEN summ.text ELSE SummaryFallback(text, sentences)
      words == word_tokenize(text)
      la == [total_words |-> Len(words),
             unique_words |-> Cardinality({LowerText(words[i]) : i \in {j \in 1..Len(words) : IsAlnum(words[j])}}),
             avg_num |-> SumLen(sentences), avg_den |-> Len(sentences)]
  IN IF nlp = "raise1" THEN [calls |-> c1, exc |-> "nlp", result |-> NoResult]
     ELSE IF nlp = "raise2" THEN [calls |-> c2, exc |-> "nlp", result |-> NoResult]
     ELSE IF Len(sentences) = 0
          THEN [calls |-> c3, exc |-> "ZeroDivisionError", result |-> NoResult]
     ELSE [calls |-> c3, exc |-> "none",
           result |-> [returned |-> TRUE,
                       full_explanation |-> ExplanationComponents(la, entities, sentiment, key_phrases, summary),
                       entities |-> entities, sentiment |-> sentiment, key_phrases |-> key_phrases,
                       total_words |-> la.total_words, unique_words |-> la.unique_words,
                       avg_num |-> la.avg_num, avg_den |-> la.avg_den,
                       summary |-> summary]]

\* random.choice(insights_templates).format(...): template k with its placeholders filled
FormatInsights(k, analysis) ==
  [returned |-> TRUE, template |-> k,
   complexity_description |->
     IF k # 1 THEN ""
     ELSE IF analysis.avg_num > 15 * analysis.avg_den THEN "intricate linguistic patterns"
     ELSE "concise communication",
   has_entities |-> k = 1,
   entities |-> IF k = 1 THEN Take(EntitiesGet(analysis.entities, "PERSON"), 3) ELSE <<>>,
   sentiment_tone |->
     IF k # 2 THEN ""
     ELSE IF Abs(analysis.sentiment.polarity) > 5 THEN "emotionally charged" ELSE "balanced",
   key_phrases |-> IF k = 2 THEN Take(analysis.key_phrases, 3) ELSE <<>>]

AnInit ==
  /\ apc = "new"
  /\ atext \in AnalyzerInputs
  /\ aresult = NoResult
  /\ ainsights = NoInsights
  /\ aexc = "none"
  /\ acalls = <<>>
  /\ anotices = <<>>

\* AdvancedTextAnalyzer.__init__
AnConstruct ==
  /\ apc = "new"
  /\ \E load \in {"ok", "oserror_ok", "oserror_raise"}, summOk \in BOOLEAN :
       LET c1 == IF load = "ok" THEN <<ACall("spacy.load", "ok", FALSE)>>
                 ELSE <<ACall("spacy.load", "raise", TRUE), ACall("spacy.cli.download", "ok", FALSE),
                        ACall("spacy.load", IF load = "oserror_ok" THEN "ok" ELSE "raise", FALSE)>>
           n1 == IF load = "ok" THEN <<>> ELSE <<"spacy.load">>
       IN IF load = "oserror_raise"
          THEN /\ acalls' = c1
               /\ anotices' = n1
               /\ aexc' = "spacy.load"
               /\ apc' = "failed"
          ELSE /\ acalls' = Append(c1, ACall("transformers.pipeline", IF summOk THEN "ok" ELSE "raise", FALSE))
               /\ anotices' = n1
               /\ aexc' = IF summOk THEN "none" ELSE "transformers.pipeline"
               /\ apc' = IF summOk THEN "ready" ELSE "failed"
  /\ UNCHANGED <<atext, aresult, ainsights>>

\* a caller invokes generate_comprehensive_explanation(text)
AnExplain ==
  /\ apc = "ready"
  /\ \E nlp \in {"ok", "raise1", "raise2"}, entities \in EntityOutcomes(atext),
        sentiment \in SentimentOutcomes, key_phrases \in KeyPhraseOutcomes(atext),
        summ \in SummarizerOutcomes :
       LET r == Explain(atext, nlp, entities, sentiment, key_phrases, summ)
       IN /\ acalls' = acalls \o r.calls
          /\ aexc' = r.exc
          /\ aresult' = r.result
          /\ apc' = "explained"
  /\ UNCHANGED <<atext, ainsights, anotices>>

\* a caller invokes generate_advanced_insights(text)
AnInsights ==
  /\ apc = "ready"
  /\ \E nlp \in {"ok", "raise1", "raise2"}, entities \in EntityOutcomes(atext),
        sentiment \in SentimentOutcomes, key_phrases \in KeyPhraseOutcomes(atext),
        summ \in SummarizerOutcomes, k \in 1..3 :
       LET r == Explain(atext, nlp, entities, sentiment, key_phrases, summ)
       IN /\ acalls' = acalls \o r.calls
          /\ aexc' = r.exc
          /\ aresult' = r.result
          /\ ainsights' = IF r.exc = "none" THEN FormatInsights(k, r.result) ELSE NoInsights
          /\ apc' = "insights"
  /\ UNCHANGED <<atext, anotices>>

\* ------------------------------------------------------------ specifications
AppIdle ==
  /\ pc = "off" /\ input_text = <<>> /\ language_option = "English"
  /\ generation_model = "None" /\ text_generator = "None" /\ ui = <<>> /\ calls = <<>>
  /\ comprehensive_explanation = <<>> /\ fallback = NoFallback /\ exc = "none" /\ urdu_text = <<>>

TrIdle == tpc = "off" /\ tin = <<>> /\ tout = <<>> /\ tout2 = <<>>

AnIdle ==
  /\ apc = "off" /\ atext = <<>> /\ aresult = NoResult /\ ainsights = NoInsights
  /\ aexc = "none" /\ acalls = <<>> /\ anotices = <<>>

\* one request through main() of src/app.py
Init == AppInit /\ TrIdle /\ AnIdle

Next ==
  \/ ButtonClick /\ UNCHANGED <<trVars, anVars>>
  \/ ConstructProcessor /\ UNCHANGED <<trVars, anVars>>
  \/ ConstructTTS /\ UNCHANGED <<trVars, anVars>>
  \/ GenerateExplanation /\ UNCHANGED <<trVars, anVars>>
  \/ Tab1 /\ UNCHANGED <<trVars, anVars>>
  \/ Tab2 /\ UNCHANGED <<trVars, anVars>>
  \/ Tab3English /\ UNCHANGED <<trVars, anVars>>
  \/ Tab3Urdu /\ UNCHANGED <<trVars, anVars>>

Spec == Init /\ [][Next]_vars

\* translate_to_urdu as a function of its input
InitTranslate == TrInit /\ AppIdle /\ AnIdle

NextTranslate ==
  \/ Translate /\ UNCHANGED <<appVars, anVars>>
  \/ TranslateAgain /\ UNCHANGED <<appVars, anVars>>

SpecTranslate == InitTranslate /\ [][NextTranslate]_vars

\* AdvancedTextAnalyzer of src/advanced_text_analyzer.py
InitAnalyzer == AnInit /\ AppIdle /\ TrIdle

NextAnalyzer ==
  \/ AnConstruct /\ UNCHANGED <<appVars, trVars>>
  \/ AnExplain /\ UNCHANGED <<appVars, trVars>>
  \/ AnInsights /\ UNCHANGED <<appVars, trVars>>

SpecAnalyzer == InitAnalyzer /\ [][NextAnalyzer]_vars


\* ------------------------------------------------------------------ claims
AllWhitespace(text) == \A i \in 1..Len(text) : text[i] \in Whitespace

HasNotice(kind, about) == \E i \in 1..Len(ui) : ui[i] = Notice(kind, about)

Raised(svc) == \E i \in 1..Len(calls) : calls[i].svc = svc /\ calls[i].outcome = "raise"

ExplanationReturned == pc \in {"tab1", "tab2", "tab3_en", "tab3_ur"}

\* C1 (as stated): a request whose input has fewer than 10 words is rejected
\* with a warning before any external service is constructed or called.
C1_RejectsUnderTenWords ==
  Len(Split(input_text)) < 10 =>
    /\ calls = <<>>
    /\ pc # "idle" => (pc = "done" /\ HasNotice("warning", "blank_input"))

\* C1 (amended): a request whose input is empty or whitespace only is rejected
\* with a warning, nothing is constructed, called or processed; any other
\* input, however few words it has, is processed, starting with spacy.load.
C1_RejectsBlankInput ==
  /\ AllWhitespace(input_text) =>
       /\ calls = <<>>
       /\ pc \in {"idle", "done"}
       /\ pc = "done" => ui = <<Notice("warning", "blank_input")>>
       /\ comprehensive_explanation = <<>> /\ ~fallback.used /\ urdu_text = <<>>
  /\ (~AllWhitespace(input_text) /\ pc \notin {"idle", "construct_processor"}) =>
       /\ calls # <<>>
       /\ calls[1].svc = "spacy.load"
       /\ ~HasNotice("warning", "blank_input")

C1_Witness ==
  pc = "done" /\ input_text = <<" ", " ">> /\ HasNotice("warning", "blank_input")

\* C2: when the generative call raises, a warning is shown, that exception
\* does not reach the caller, and what generate_comprehensive_explanation
\* returns is the template built from analyze_paragraph; with no generative
\* model configured the template path is taken as well.
C2_GenaiFailureFallsBack ==
  LET templated ==
        /\ fallback.used
        /\ comprehensive_explanation = ExplanationTemplate(TotalWords(input_text), fallback.interp)
        /\ comprehensive_explanation[1] = TemplateLiteral
        /\ \E i \in 1..Len(calls) :
             /\ calls[i] = Call("nlp", input_text, "ok")
             /\ \A j \in 1..Len(calls) : calls[j].svc = "generate_content" => j < i
  IN /\ Raised("generate_content") =>
          /\ HasNotice("warning", "generate_content")
          /\ exc # "generate_content"
          /\ ExplanationReturned => templated
     /\ (generation_model = "None" /\ ExplanationReturned) =>
          /\ templated
          /\ \A i \in 1..Len(calls) : calls[i].svc # "generate_content"

C2_Witness == pc = "tab1" /\ Raised("generate_content") /\ fallback.used

\* C3: when the summarizer raises, the analysis still returns and its summary
\* is the first sentence of the input, or the first 200 characters when the
\* input has no sentence.
C3_SummaryFallbackReturns ==
  (apc = "explained" /\ \E i \in 1..Len(acalls) : acalls[i] = ACall("summarizer", "raise", TRUE)) =>
    /\ aexc = "none"
    /\ aresult.returned
    /\ aresult.summary = IF sent_tokenize(atext) # <<>> THEN sent_tokenize(atext)[1]
                         ELSE SubSeq(atext, 1, Min(200, Len(atext)))

\* C4: every whitespace-delimited token of the input whose lowercase form is
\* not a key of the mapping is found unchanged, at the same position, among
\* the tokens of translate_to_urdu's output.
C4_UnmappedTokensUntouched ==
  tpc = "translated" =>
    LET a == Split(tin)
        b == Split(tout)
    IN /\ Len(b) = Len(a)
       /\ \A i \in 1..Len(a) : LowerText(a[i]) \notin MappingKeys => b[i] = a[i]

\* C5: translate_to_urdu replaces exactly the tokens whose lowercase form is a
\* key of the mapping, by the mapped value, and keeps every other token and
\* the word order.
C5_MappedTokensReplaced ==
  tpc = "translated" =>
    LET a == Split(tin)
        b == Split(tout)
    IN /\ Len(b) = Len(a)
       /\ \A i \in 1..Len(a) :
            b[i] = IF LowerText(a[i]) \in MappingKeys THEN MappedValue(LowerText(a[i])) ELSE a[i]

\* C6: with an empty entities mapping the assembler does not throw, and the
\* entity section of what it produces is either left out or carries an
\* explicit empty-state notice (a stated count of 0 in the explanation, a
\* non-empty text in the entity placeholder of the insights).
C6_EmptyEntitiesHandled ==
  LET entitiesEmpty == (aresult.returned /\ aresult.entities = <<>>) \/ aexc = "ZeroDivisionError"
  IN (apc \in {"explained", "insights"} /\ entitiesEmpty) =>
       /\ aexc = "none"
       /\ aresult.full_explanation.entity_count = 0
       /\ apc = "insights" => (~ainsights.has_entities \/ ainsights.entities # <<>>)

\* C7: every exception the code catches is followed by a visible notice
\* about it; none is swallowed silently.
C7_NoSilentSwallow ==
  \A i \in 1..Len(acalls) :
    acalls[i].caught => \E n \in 1..Len(anotices) : anotices[n] = acalls[i].svc

UncaughtServices == {"spacy.load", "os.makedirs", "nlp"}

\* C8 (as stated): when a call to a service without a fallback (speech
\* synthesis, the spaCy pipeline, ...) fails, the request ends there: it is
\* the last call of the request and no later step runs.
C8_FailureAbortsRequest ==
  \A i \in 1..Len(calls) :
    (calls[i].outcome = "raise" /\ calls[i].svc \in UncaughtServices \cup {"gTTS"}) =>
      /\ i = Len(calls)
      /\ pc = "done"
      /\ urdu_text = <<>>

\* C8 (amended): a failure of spacy.load, os.makedirs or the spaCy pipeline
\* reaches main()'s handler: the request ends with two error notices and no
\* later step runs. A speech synthesis failure is caught in generate_speech:
\* an error is shown, main() carries on, and with Urdu selected the Urdu
\* translation and its synthesis still run.
C8_UncaughtFailureAbortsRequest ==
  /\ \A i \in 1..Len(calls) :
       (calls[i].outcome = "raise" /\ calls[i].svc \in UncaughtServices) =>
         /\ i = Len(calls)
         /\ pc = "done"
         /\ exc = calls[i].svc
         /\ urdu_text = <<>>
         /\ Len(ui) >= 2
         /\ ui[Len(ui) - 1] = Notice("error", calls[i].svc)
         /\ ui[Len(ui)] = Notice("error", "traceback")
  /\ Raised("gTTS") => (HasNotice("error", "gTTS") /\ exc = "none")
  /\ (pc = "done" /\ language_option = "Urdu"
        /\ \E i \in 1..Len(calls) : calls[i].svc = "gTTS" /\ calls[i].arg.lang = "en") =>
       \E j \in 1..Len(calls) :
         /\ calls[j].svc = "gTTS"
         /\ calls[j].arg = [text |-> translate_to_urdu(comprehensive_explanation), lang |-> "ur"]

C8_Witness ==
  /\ pc = "done" /\ exc = "nlp" /\ HasNotice("json", "analysis_result") = FALSE
  /\ \E i \in 1..Len(calls) : calls[i].svc = "generate_content" /\ calls[i].outcome = "ok"

RetryableServices == {"generate_content", "text_generator", "gTTS"}

\* C9: within a request, once the generative model, the text generator or
\* the speech service has raised for some arguments, it is not invoked again
\* with the same arguments.
C9_NoRetry ==
  \A i \in 1..Len(calls) : \A j \in 1..Len(calls) :
    (i < j /\ calls[i].outcome = "raise" /\ calls[i].svc \in RetryableServices
       /\ calls[j].svc = calls[i].svc) =>
      calls[j].arg # calls[i].arg

C9_Witness ==
  /\ pc = "done" /\ Len(calls) >= 2
  /\ calls[Len(calls) - 1].svc = "gTTS" /\ calls[Len(calls) - 1].outcome = "raise"
  /\ calls[Len(calls)].svc = "gTTS"
  /\ Raised("generate_content")

\* C10: the output of translate_to_urdu contains none of the seven English
\* patterns, and translating the output again changes nothing.
C10_OutputFreeOfPatternsAndIdempotent ==
  /\ tpc \in {"translated", "again"} => \A key \in MappingKeys : ~Contains(tout, key)
  /\ tpc = "again" => tout2 = tout

C10_Witness ==
  /\ tpc = "again" /\ tout # tin
  /\ tin = <<"t", "o", "i", "s", "t", "h", "e">>

====
